---------------------------- MODULE Spec2Model ----------------------------
(***************************************************************************)
(* Model of the diagnostic-notation parser of cbor-diag                    *)
(* (src/src/parse/diag.rs).                                                *)
(*                                                                         *)
(* A text is a sequence of characters, each character a one-element        *)
(* string.  Every parser of the source is an operator from the remaining   *)
(* input to a nom IResult: Ok(rest, out), the recoverable Error that `alt`,*)
(* `opt` and the repetition combinators catch, or Incomplete, which they   *)
(* pass through.  Unsigned 64-bit values are kept as canonical decimal     *)
(* digit sequences so that the full u64 range is exact.                    *)
(***************************************************************************)
EXTENDS Integers, Sequences, FiniteSets, TLC

\* text:    the argument of parse_diag
\* written: how that text was put together (family, literals, layout)
\* pc:      "call" before parse_diag has run, "done" after
\* result:  what parse_diag returned
VARIABLES text, written, pc, result

vars == << text, written, pc, result >>

(***************************************************************************)
(* Characters                                                              *)
(***************************************************************************)
\* the vertical tab, U+000B (TLA+ strings have no escape for it)
VT == "<VT>"
\* U+00E9, a character whose UTF-8 encoding is the two bytes C3 A9
E_ACUTE == "<U+00E9>"

\* U+0060, which a TLA+ string cannot hold
BACKQUOTE == "<U+0060>"

\* the printable ASCII characters, code 32 first
Printable ==
    << " ", "!", "\"", "#", "$", "%", "&", "'", "(", ")", "*", "+", ",", "-", ".", "/",
       "0", "1", "2", "3", "4", "5", "6", "7", "8", "9", ":", ";", "<", "=", ">", "?",
       "@", "A", "B", "C", "D", "E", "F", "G", "H", "I", "J", "K", "L", "M", "N", "O",
       "P", "Q", "R", "S", "T", "U", "V", "W", "X", "Y", "Z", "[", "\\", "]", "^", "_",
       BACKQUOTE, "a", "b", "c", "d", "e", "f", "g", "h", "i", "j", "k", "l", "m", "n", "o",
       "p", "q", "r", "s", "t", "u", "v", "w", "x", "y", "z", "{", "|", "}", "~" >>

IndexOf(seq, c) == CHOOSE i \in 1..Len(seq) : seq[i] = c

InSeq(seq, c) == \E i \in 1..Len(seq) : seq[i] = c

\* the UTF-8 bytes of one character (str::as_bytes / String::into_bytes)
Utf8Bytes(c) ==
    CASE c = "\t" -> << 9 >>
      [] c = "\n" -> << 10 >>
      [] c = VT -> << 11 >>
      [] c = "\r" -> << 13 >>
      [] c = E_ACUTE -> << 195, 169 >>
      [] OTHER -> << 31 + IndexOf(Printable, c) >>

RECURSIVE IntoBytes(_)
IntoBytes(s) == IF s = << >> THEN << >> ELSE Utf8Bytes(Head(s)) \o IntoBytes(Tail(s))

RECURSIVE Flatten(_)
Flatten(ss) == IF ss = << >> THEN << >> ELSE Head(ss) \o Flatten(Tail(ss))

Digits == {"0", "1", "2", "3", "4", "5", "6", "7", "8", "9"}
UpperAF == {"A", "B", "C", "D", "E", "F"}
LowerAF == {"a", "b", "c", "d", "e", "f"}
Upper == {Printable[i] : i \in 34..59}
Lower == {Printable[i] : i \in 66..91}

DigitVal(c) == IndexOf(Printable, c) - 17

\* static WHITESPACE: "\n" and "\x0A" are the same character
WHITESPACE == {"\t", "\n", VT, "\r", " "}

\* the characters nom's multispace0 takes
Multispace == {" ", "\t", "\r", "\n"}

(***************************************************************************)
(* nom results and primitive parsers                                       *)
(***************************************************************************)
Ok(rest, out) == [ok |-> TRUE, rest |-> rest, out |-> out]
Error == [ok |-> FALSE, kind |-> "Error"]
Incomplete == [ok |-> FALSE, kind |-> "Incomplete"]

None == [some |-> FALSE]
Some(v) == [some |-> TRUE, v |-> v]

\* f applied to a value computed once
With(v, f(_)) == f(v)

\* a result alt returns without trying the next alternative
Stops(r) == r.ok \/ r.kind = "Incomplete"

\* alt on two parsers, given their results on the same input
alt2(r1, r2) == IF Stops(r1) THEN r1 ELSE r2

Drop(s, n) == SubSeq(s, n + 1, Len(s))
Take(s, n) == SubSeq(s, 1, n)

\* the length of the longest prefix of s made of characters of S
PrefixLen(s, S) ==
    LET stop == {i \in 1..Len(s) : s[i] \notin S}
    IN  IF stop = {} THEN Len(s)
        ELSE (CHOOSE i \in stop : \A j \in stop : i <= j) - 1

tag(t, input) ==
    IF Len(input) >= Len(t) /\ Take(input, Len(t)) = t
    THEN Ok(Drop(input, Len(t)), t)
    ELSE Error

digit1(input) ==
    LET n == PrefixLen(input, Digits)
    IN  IF n = 0 THEN Error ELSE Ok(Drop(input, n), Take(input, n))

ws(input) == Ok(Drop(input, PrefixLen(input, Multispace)), << >>)

\* str::split_at_position, the streaming form: with no character outside
\* the class before the end of the input it reports Incomplete
split_at_position(input, class) ==
    LET n == PrefixLen(input, class)
    IN  IF n = Len(input) THEN Incomplete ELSE Ok(Drop(input, n), Take(input, n))

base16_digit0(input) ==
    split_at_position(input, Digits \cup UpperAF \cup LowerAF \cup WHITESPACE)

base32_digit0(input) ==
    split_at_position(input, Upper \cup {"2", "3", "4", "5", "6", "7", "="} \cup WHITESPACE)

base32hex_digit0(input) ==
    split_at_position(input, Digits \cup {Printable[i] : i \in 34..55} \cup {"="} \cup WHITESPACE)

base64url_digit0(input) ==
    split_at_position(input, Upper \cup Lower \cup Digits \cup {"-", "_"} \cup WHITESPACE)

base64_digit0(input) ==
    split_at_position(input, Upper \cup Lower \cup Digits \cup {"+", "/", "="} \cup WHITESPACE)

(***************************************************************************)
(* Unsigned values as canonical decimal digit sequences                    *)
(***************************************************************************)
RECURSIVE StripZeros(_)
StripZeros(ds) ==
    IF Len(ds) > 1 /\ Head(ds) = 0 THEN StripZeros(Tail(ds)) ELSE ds

RECURSIVE LexLeq(_, _)
LexLeq(a, b) ==
    IF a = << >> THEN TRUE
    ELSE IF Head(a) # Head(b) THEN Head(a) < Head(b)
    ELSE LexLeq(Tail(a), Tail(b))

NatLeq(a, b) == Len(a) < Len(b) \/ (Len(a) = Len(b) /\ LexLeq(a, b))

Dec(n) == IF n < 10 THEN << n >>
          ELSE IF n < 100 THEN << n \div 10, n % 10 >>
          ELSE << n \div 100, (n \div 10) % 10, n % 10 >>

U64_MAX == << 1, 8, 4, 4, 6, 7, 4, 4, 0, 7, 3, 7, 0, 9, 5, 5, 1, 6, 1, 5 >>
U8_MAX == Dec(255)

\* value - 1 on u64; 0 - 1 wraps, as in a release build
RECURSIVE Borrow(_)
Borrow(ds) ==
    LET n == Len(ds)
    IN  IF ds[n] > 0 THEN [ds EXCEPT ![n] = ds[n] - 1]
        ELSE Append(Borrow(Take(ds, n - 1)), 9)

NatPred(ds) == IF ds = << 0 >> THEN U64_MAX ELSE StripZeros(Borrow(ds))

\* u64::from_str / u8::from_str on a digit run: the value, or an
\* error when it exceeds the type's maximum
from_str(run, max) ==
    LET ds == StripZeros([i \in 1..Len(run) |-> DigitVal(run[i])])
    IN  IF NatLeq(ds, max) THEN Some(ds) ELSE None

\* the value of a short digit run as a number of the model
RECURSIVE NatOf(_)
NatOf(ds) == IF ds = << >> THEN 0 ELSE 10 * NatOf(Take(ds, Len(ds) - 1)) + ds[Len(ds)]

(***************************************************************************)
(* Numeric literals                                                        *)
(***************************************************************************)
encoding(input) ==
    With(tag(<< "_" >>, input), LAMBDA t :
    IF ~t.ok THEN Error ELSE
    With(digit1(t.rest), LAMBDA d :
    IF ~d.ok THEN Error ELSE
    With(from_str(d.out, U64_MAX), LAMBDA e :
    IF ~e.some THEN Error
    ELSE IF ~(NatLeq(e.v, << 3 >>)) THEN Error
    ELSE Ok(d.rest, e.v))))

IntegerWidthOf(enc) ==
    IF ~enc.some THEN "Unknown"
    ELSE CASE enc.v = << 0 >> -> "Eight"
           [] enc.v = << 1 >> -> "Sixteen"
           [] enc.v = << 2 >> -> "ThirtyTwo"
           [] enc.v = << 3 >> -> "SixtyFour"

integer(input) ==
    With(digit1(input), LAMBDA d :
    IF ~d.ok THEN Error ELSE
    With(from_str(d.out, U64_MAX), LAMBDA value :
    IF ~value.some THEN Error ELSE
    With(encoding(d.rest), LAMBDA e :
    Ok(IF e.ok THEN e.rest ELSE d.rest,
       [value |-> value.v,
        bitwidth |-> IntegerWidthOf(IF e.ok THEN Some(e.out) ELSE None)]))))

\* positive with the threshold one too high
positive_threshold_24(input) ==
    With(integer(input), LAMBDA i :
    IF ~i.ok THEN Error
    ELSE Ok(i.rest,
            [type |-> "Integer",
             value |-> i.out.value,
             bitwidth |-> IF i.out.bitwidth = "Unknown" /\ NatLeq(i.out.value, Dec(24))
                          THEN "Zero" ELSE i.out.bitwidth]))

\* positive choosing Zero for a small value whatever the suffix
positive_suffix_ignored(input) ==
    With(integer(input), LAMBDA i :
    IF ~i.ok THEN Error
    ELSE Ok(i.rest,
            [type |-> "Integer",
             value |-> i.out.value,
             bitwidth |-> IF NatLeq(i.out.value, Dec(23))
                          THEN "Zero" ELSE i.out.bitwidth]))

positive(input) ==
    With(integer(input), LAMBDA i :
    IF ~i.ok THEN Error
    ELSE Ok(i.rest,
            [type |-> "Integer",
             value |-> i.out.value,
             bitwidth |-> IF i.out.bitwidth = "Unknown" /\ NatLeq(i.out.value, Dec(23))
                          THEN "Zero" ELSE i.out.bitwidth]))

\* negative without the check that the digits are above zero
negative_unverified(input) ==
    With(tag(<< "-" >>, input), LAMBDA m :
    IF ~m.ok THEN Error ELSE
    With(integer(m.rest), LAMBDA i :
    IF ~i.ok THEN Error
    ELSE Ok(i.rest,
            [type |-> "Negative",
             value |-> NatPred(i.out.value),
             bitwidth |-> IF i.out.bitwidth = "Unknown" /\ NatLeq(i.out.value, Dec(24))
                          THEN "Zero" ELSE i.out.bitwidth])))

negative(input) ==
    With(tag(<< "-" >>, input), LAMBDA m :
    IF ~m.ok THEN Error ELSE
    With(integer(m.rest), LAMBDA i :
    IF ~i.ok THEN Error
    ELSE IF ~(i.out.value # << 0 >>) THEN Error
    ELSE Ok(i.rest,
            [type |-> "Negative",
             value |-> NatPred(i.out.value),
             bitwidth |-> IF i.out.bitwidth = "Unknown" /\ NatLeq(i.out.value, Dec(24))
                          THEN "Zero" ELSE i.out.bitwidth])))

(***************************************************************************)
(* Floats.  A finite f64 is kept as the exact decimal it was written as,   *)
(* sign, mantissa without trailing zeros and power of ten, so that two     *)
(* spellings of one number give one value; rounding is not modelled.       *)
(***************************************************************************)
opt_sign(input) ==
    IF input # << >> /\ Head(input) \in {"+", "-"}
    THEN Ok(Tail(input), Some(Head(input)))
    ELSE Ok(input, None)

exponent(input) ==
    IF input = << >> \/ Head(input) \notin {"e", "E"} THEN Error ELSE
    With(opt_sign(Tail(input)), LAMBDA s :
    With(digit1(s.rest), LAMBDA d :
    IF ~d.ok THEN Error ELSE Ok(d.rest, << s.out, d.out >>)))

recognize_float(input) ==
    With(digit1(opt_sign(input).rest), LAMBDA i :
    IF ~i.ok THEN Error ELSE
    With(tag(<< "." >>, i.rest), LAMBDA dot :
    IF ~dot.ok THEN Error ELSE
    With(digit1(dot.rest), LAMBDA f :
    IF ~f.ok THEN Error ELSE
    With(exponent(f.rest), LAMBDA e :
    With(IF e.ok THEN e.rest ELSE f.rest, LAMBDA rest :
    Ok(rest, Take(input, Len(input) - Len(rest))))))))

RECURSIVE StripTrailingZeros(_, _)
StripTrailingZeros(ds, exp) ==
    IF ds = << 0 >> THEN [mant |-> ds, exp |-> 0]
    ELSE IF ds[Len(ds)] = 0 THEN StripTrailingZeros(Take(ds, Len(ds) - 1), exp + 1)
    ELSE [mant |-> ds, exp |-> exp]

\* the signed value of the exponent exponent took, 0 without one
ExponentOf(e) ==
    IF ~e.ok THEN 0
    ELSE With(NatOf([k \in 1..Len(e.out[2]) |-> DigitVal(e.out[2][k])]), LAMBDA n :
         IF e.out[1].some /\ e.out[1].v = "-" THEN 0 - n ELSE n)

\* f64::from_str on a string recognize_float took
f64_from_str(str) ==
    With(opt_sign(str), LAMBDA s :
    With(PrefixLen(s.rest, Digits), LAMBDA n1 :
    With(Drop(s.rest, n1 + 1), LAMBDA afterdot :
    With(PrefixLen(afterdot, Digits), LAMBDA n2 :
    With(Take(s.rest, n1) \o Take(afterdot, n2), LAMBDA all :
    With(StripTrailingZeros(StripZeros([k \in 1..Len(all) |-> DigitVal(all[k])]),
                            ExponentOf(exponent(Drop(afterdot, n2))) - n2), LAMBDA norm :
    [class |-> "finite",
     negative |-> s.out.some /\ s.out.v = "-",
     mant |-> norm.mant,
     exp |-> norm.exp]))))))

INFINITY == [class |-> "infinite", negative |-> FALSE, mant |-> << >>, exp |-> 0]
NEG_INFINITY == [class |-> "infinite", negative |-> TRUE, mant |-> << >>, exp |-> 0]
NAN == [class |-> "nan", negative |-> FALSE, mant |-> << >>, exp |-> 0]

T_Infinity == << "I", "n", "f", "i", "n", "i", "t", "y" >>
T_NaN == << "N", "a", "N" >>

\* value(v, tag(t))
value_tag(v, t, input) ==
    With(tag(t, input), LAMBDA r : IF r.ok THEN Ok(r.rest, v) ELSE Error)

float_value(input) ==
    alt2(With(recognize_float(input), LAMBDA r :
              IF r.ok THEN Ok(r.rest, f64_from_str(r.out)) ELSE Error),
    alt2(value_tag(INFINITY, T_Infinity, input),
    alt2(value_tag(NEG_INFINITY, << "-" >> \o T_Infinity, input),
         value_tag(NAN, T_NaN, input))))

FloatWidthOf(enc) ==
    IF ~enc.some THEN "Unknown"
    ELSE CASE enc.v = << 1 >> -> "Sixteen"
           [] enc.v = << 2 >> -> "ThirtyTwo"
           [] enc.v = << 3 >> -> "SixtyFour"

\* float taking the suffix _0 like an integer does, as the narrowest width
float_suffix_0(input) ==
    With(float_value(input), LAMBDA v :
    IF ~v.ok THEN Error ELSE
    With(encoding(v.rest), LAMBDA e :
    Ok(IF e.ok THEN e.rest ELSE v.rest,
       [type |-> "Float", value |-> v.out,
        bitwidth |-> FloatWidthOf(IF e.ok /\ e.out # << 0 >> THEN Some(e.out)
                                  ELSE IF e.ok THEN Some(<< 1 >>) ELSE None)])))

float(input) ==
    With(float_value(input), LAMBDA v :
    IF ~v.ok THEN Error ELSE
    With(encoding(v.rest), LAMBDA e :
    With(e.ok /\ e.out # << 0 >>, LAMBDA verified :
    Ok(IF verified THEN e.rest ELSE v.rest,
       [type |-> "Float", value |-> v.out,
        bitwidth |-> FloatWidthOf(IF verified THEN Some(e.out) ELSE None)]))))

(***************************************************************************)
(* Simple values                                                           *)
(***************************************************************************)
T_false == << "f", "a", "l", "s", "e" >>
T_true == << "t", "r", "u", "e" >>
T_null == << "n", "u", "l", "l" >>
T_undefined == << "u", "n", "d", "e", "f", "i", "n", "e", "d" >>
T_simple == << "s", "i", "m", "p", "l", "e" >>

simple_number(input) ==
    With(tag(T_simple, input), LAMBDA k :
    IF ~k.ok THEN Error ELSE
    With(tag(<< "(" >>, k.rest), LAMBDA o :
    IF ~o.ok THEN Error ELSE
    With(digit1(o.rest), LAMBDA d :
    IF ~d.ok THEN Error ELSE
    With(tag(<< ")" >>, d.rest), LAMBDA c :
    With(from_str(d.out, U8_MAX), LAMBDA n :
    IF ~c.ok \/ ~n.some THEN Error ELSE Ok(c.rest, NatOf(n.v)))))))

simple(input) ==
    With(alt2(value_tag(20, T_false, input),
         alt2(value_tag(21, T_true, input),
         alt2(value_tag(22, T_null, input),
         alt2(value_tag(23, T_undefined, input),
              simple_number(input))))), LAMBDA s :
    IF ~s.ok THEN Error ELSE Ok(s.rest, [type |-> "Simple", value |-> s.out]))

(***************************************************************************)
(* Binary-to-text codecs (data_encoding) and UTF-8                         *)
(***************************************************************************)
HexSymbols ==
    << "0", "1", "2", "3", "4", "5", "6", "7", "8", "9", "a", "b", "c", "d", "e", "f" >>

Base32Symbols ==
    << "A", "B", "C", "D", "E", "F", "G", "H", "I", "J", "K", "L", "M", "N", "O", "P",
       "Q", "R", "S", "T", "U", "V", "W", "X", "Y", "Z", "2", "3", "4", "5", "6", "7" >>

Base32HexSymbols ==
    << "0", "1", "2", "3", "4", "5", "6", "7", "8", "9", "A", "B", "C", "D", "E", "F",
       "G", "H", "I", "J", "K", "L", "M", "N", "O", "P", "Q", "R", "S", "T", "U", "V" >>

Base64Symbols ==
    << "A", "B", "C", "D", "E", "F", "G", "H", "I", "J", "K", "L", "M", "N", "O", "P",
       "Q", "R", "S", "T", "U", "V", "W", "X", "Y", "Z", "a", "b", "c", "d", "e", "f",
       "g", "h", "i", "j", "k", "l", "m", "n", "o", "p", "q", "r", "s", "t", "u", "v",
       "w", "x", "y", "z", "0", "1", "2", "3", "4", "5", "6", "7", "8", "9", "+", "/" >>

Base64UrlSymbols ==
    << "A", "B", "C", "D", "E", "F", "G", "H", "I", "J", "K", "L", "M", "N", "O", "P",
       "Q", "R", "S", "T", "U", "V", "W", "X", "Y", "Z", "a", "b", "c", "d", "e", "f",
       "g", "h", "i", "j", "k", "l", "m", "n", "o", "p", "q", "r", "s", "t", "u", "v",
       "w", "x", "y", "z", "0", "1", "2", "3", "4", "5", "6", "7", "8", "9", "-", "_" >>

\* an encoding with the characters of WHITESPACE ignored
ignore_ws(encoding_) == [encoding_ EXCEPT !.ignore = WHITESPACE]

HEXLOWER_PERMISSIVE ==
    [symbols |-> HexSymbols, bit |-> 4, padding |-> FALSE,
     from |-> << "A", "B", "C", "D", "E", "F" >>,
     to |-> << "a", "b", "c", "d", "e", "f" >>, ignore |-> {}]

BASE16 == ignore_ws(HEXLOWER_PERMISSIVE)

BASE32 ==
    ignore_ws([symbols |-> Base32Symbols, bit |-> 5, padding |-> TRUE,
               from |-> << >>, to |-> << >>, ignore |-> {}])

BASE32HEX ==
    ignore_ws([symbols |-> Base32HexSymbols, bit |-> 5, padding |-> TRUE,
               from |-> << >>, to |-> << >>, ignore |-> {}])

BASE64 ==
    ignore_ws([symbols |-> Base64Symbols, bit |-> 6, padding |-> TRUE,
               from |-> << >>, to |-> << >>, ignore |-> {}])

BASE64URL_NOPAD ==
    ignore_ws([symbols |-> Base64UrlSymbols, bit |-> 6, padding |-> FALSE,
               from |-> << >>, to |-> << >>, ignore |-> {}])

Pow2(n) == CASE n = 0 -> 1 [] n = 1 -> 2 [] n = 2 -> 4 [] n = 3 -> 8 [] n = 4 -> 16
             [] n = 5 -> 32 [] n = 6 -> 64 [] n = 7 -> 128 [] n = 8 -> 256

\* the symbols of one encoded block
BlockLen(bit) == CASE bit = 4 -> 2 [] bit = 5 -> 8 [] bit = 6 -> 4

IsSymbol(enc, c) == InSeq(enc.symbols, c) \/ InSeq(enc.from, c)

SymbolValue(enc, c) ==
    IF InSeq(enc.from, c)
    THEN IndexOf(enc.symbols, enc.to[IndexOf(enc.from, c)]) - 1
    ELSE IndexOf(enc.symbols, c) - 1

\* the bytes of a run of symbol values; the bits left over must be zero
RECURSIVE DecodeValues(_, _, _, _)
DecodeValues(vals, bit, acc, nbits) ==
    IF vals = << >> THEN (IF acc = 0 THEN Some(<< >>) ELSE None)
    ELSE With(acc * Pow2(bit) + Head(vals), LAMBDA a :
         With(nbits + bit, LAMBDA n :
         IF n < 8 THEN DecodeValues(Tail(vals), bit, a, n)
         ELSE With(DecodeValues(Tail(vals), bit, a % Pow2(n - 8), n - 8), LAMBDA r :
              IF r.some THEN Some(<< a \div Pow2(n - 8) >> \o r.v) ELSE None)))

\* a run of symbols without padding: every character a symbol, no symbol
\* that adds no byte
DecodeRun(enc, s) ==
    IF \E i \in 1..Len(s) : ~IsSymbol(enc, s[i]) THEN None
    ELSE IF (Len(s) * enc.bit) % 8 >= enc.bit THEN None
    ELSE DecodeValues([i \in 1..Len(s) |-> SymbolValue(enc, s[i])], enc.bit, 0, 0)

\* the symbols of a block before the "=" that end it
Unpadded(block) ==
    Take(block, Len(block) - PrefixLen([i \in 1..Len(block) |-> block[Len(block) + 1 - i]],
                                       {"="}))

\* padded input, block by block: each block is a run followed by the
\* "=" that fill it, and holds at least one symbol
RECURSIVE DecodePadded(_, _)
DecodePadded(enc, s) ==
    IF s = << >> THEN Some(<< >>)
    ELSE With(Unpadded(Take(s, BlockLen(enc.bit))), LAMBDA run :
         With(IF run = << >> THEN None ELSE DecodeRun(enc, run), LAMBDA head :
         With(DecodePadded(enc, Drop(s, BlockLen(enc.bit))), LAMBDA tail :
         IF head.some /\ tail.some THEN Some(head.v \o tail.v) ELSE None)))

\* Encoding::decode
decode(enc, str) ==
    With(SelectSeq(str, LAMBDA c : c \notin enc.ignore), LAMBDA s :
    IF enc.padding
    THEN IF Len(s) % BlockLen(enc.bit) # 0 THEN None ELSE DecodePadded(enc, s)
    ELSE DecodeRun(enc, s))

\* String::from_utf8 accepts exactly the well-formed UTF-8 byte sequences
RECURSIVE ValidUtf8(_)
ValidUtf8(b) ==
    IF b = << >> THEN TRUE
    ELSE IF b[1] < 128 THEN ValidUtf8(Tail(b))
    ELSE IF b[1] \in 194..223
         THEN Len(b) >= 2 /\ b[2] \in 128..191 /\ ValidUtf8(Drop(b, 2))
    ELSE IF b[1] \in 224..239
         THEN /\ Len(b) >= 3
              /\ b[2] \in (IF b[1] = 224 THEN 160..191
                           ELSE IF b[1] = 237 THEN 128..159 ELSE 128..191)
              /\ b[3] \in 128..191
              /\ ValidUtf8(Drop(b, 3))
    ELSE IF b[1] \in 240..244
         THEN /\ Len(b) >= 4
              /\ b[2] \in (IF b[1] = 240 THEN 144..191
                           ELSE IF b[1] = 244 THEN 128..143 ELSE 128..191)
              /\ b[3] \in 128..191
              /\ b[4] \in 128..191
              /\ ValidUtf8(Drop(b, 4))
    ELSE FALSE

from_utf8(b) == IF ValidUtf8(b) THEN Some(b) ELSE None

(***************************************************************************)
(* Byte strings and text strings                                           *)
(***************************************************************************)
\* escaped_transform(none_of("\\" + quote), '\\', alt((tag("\\"), tag(quote))))
RECURSIVE escaped_transform(_, _, _, _)
escaped_transform(input, quote, res, index) ==
    IF input = << >> THEN Ok(input, res)
    ELSE IF Head(input) \notin {"\\", quote}
         THEN escaped_transform(Tail(input), quote, Append(res, Head(input)), index + 1)
    ELSE IF Head(input) = "\\"
         THEN IF Len(input) = 1 THEN Error
              ELSE IF input[2] \in {"\\", quote}
                   THEN escaped_transform(Drop(input, 2), quote, Append(res, input[2]), index + 2)
              ELSE Error
    ELSE IF index = 0 THEN Error
    ELSE Ok(input, res)

\* delimited(tag(quote), opt(escaped_transform(..)), tag(quote))
quoted(input, quote) ==
    With(tag(<< quote >>, input), LAMBDA o :
    IF ~o.ok THEN Error ELSE
    With(escaped_transform(o.rest, quote, << >>, 0), LAMBDA e :
    With(tag(<< quote >>, IF e.ok THEN e.rest ELSE o.rest), LAMBDA c :
    IF ~c.ok THEN Error ELSE Ok(c.rest, IF e.ok THEN e.out ELSE << >>))))

\* map_res(preceded(tag(prefix), delimited(tag("'"), digit0, tag("'"))), decode),
\* body being what digit0 gave after the prefix and the opening quote
encoded(body, enc) ==
    IF ~body.ok THEN body ELSE
    With(tag(<< "'" >>, body.rest), LAMBDA c :
    With(decode(enc, body.out), LAMBDA bytes :
    IF ~c.ok \/ ~bytes.some THEN Error ELSE Ok(c.rest, bytes.v)))

\* preceded(tag(prefix), f) up to f's result
preceded(prefix, f(_), input) ==
    With(tag(prefix, input), LAMBDA p : IF p.ok THEN f(p.rest) ELSE Error)

definite_bytestring(input) ==
    With(ws(input).rest, LAMBDA i :
    With(alt2(encoded(preceded(<< "h", "'" >>, base16_digit0, i), BASE16),
         alt2(encoded(preceded(<< "b", "3", "2", "'" >>, base32_digit0, i), BASE32),
         alt2(encoded(preceded(<< "h", "3", "2", "'" >>, base32hex_digit0, i), BASE32HEX),
         alt2(encoded(preceded(<< "b", "6", "4", "'" >>, base64url_digit0, i),
                      BASE64URL_NOPAD),
         alt2(encoded(preceded(<< "b", "6", "4", "'" >>, base64_digit0, i), BASE64),
              With(quoted(i, "'"), LAMBDA raw :
                   IF raw.ok THEN Ok(raw.rest, IntoBytes(raw.out)) ELSE Error)))))),
         LAMBDA r :
    IF ~r.ok THEN r ELSE Ok(ws(r.rest).rest, r.out)))

definite_textstring(input) ==
    With(quoted(ws(input).rest, "\""), LAMBDA r :
    IF ~r.ok THEN Error ELSE Ok(ws(r.rest).rest, IntoBytes(r.out)))

\* nom's many0: stops at the first Error, refuses an element that consumes nothing
RECURSIVE many0(_, _, _)
many0(f(_), input, acc) ==
    With(f(input), LAMBDA r :
    IF ~r.ok THEN (IF r.kind = "Error" THEN Ok(input, acc) ELSE r)
    ELSE IF r.rest = input THEN Error
    ELSE many0(f, r.rest, Append(acc, r.out)))

many1(f(_), input) ==
    With(f(input), LAMBDA r :
    IF ~r.ok THEN r ELSE many0(f, r.rest, << r.out >>))

\* nom's separated_list(tag(","), f): after an element, a separator that is
\* not followed by an element is left unconsumed
RECURSIVE separated_rest(_, _, _)
separated_rest(f(_), input, acc) ==
    With(tag(<< "," >>, input), LAMBDA sep :
    IF ~sep.ok THEN Ok(input, acc) ELSE
    With(f(sep.rest), LAMBDA r :
    IF ~r.ok THEN (IF r.kind = "Error" THEN Ok(input, acc) ELSE r)
    ELSE IF r.rest = input THEN Error
    ELSE separated_rest(f, r.rest, Append(acc, r.out))))

separated_list(f(_), input) ==
    With(f(input), LAMBDA r :
    IF ~r.ok THEN (IF r.kind = "Error" THEN Ok(input, << >>) ELSE r)
    ELSE IF r.rest = input THEN Error
    ELSE separated_rest(f, r.rest, << r.out >>))

opt_comma_tag(t, input) ==
    alt2(tag(t, input),
         With(tag(<< "," >>, input), LAMBDA comma :
              IF ~comma.ok THEN Error ELSE tag(t, ws(comma.rest).rest)))

\* concatenated_definite_bytestring keeping the first literal only
concatenated_first_only(input) ==
    With(many1(definite_bytestring, input), LAMBDA r :
    IF ~r.ok THEN r
    ELSE Ok(r.rest, [data |-> Head(r.out), bitwidth |-> "Unknown"]))

concatenated_definite_bytestring(input) ==
    With(many1(definite_bytestring, input), LAMBDA r :
    IF ~r.ok THEN r
    ELSE Ok(r.rest, [data |-> Flatten(r.out), bitwidth |-> "Unknown"]))

\* delimited(tag("(_"), separated_list(tag(","), f), opt_comma_tag(")")) as type_
indefinite_string(type_, f(_), input) ==
    With(tag(<< "(", "_" >>, input), LAMBDA o :
    IF ~o.ok THEN Error ELSE
    With(separated_list(f, o.rest), LAMBDA l :
    IF ~l.ok THEN l ELSE
    With(opt_comma_tag(<< ")" >>, l.rest), LAMBDA c :
    IF ~c.ok THEN Error ELSE Ok(c.rest, [type |-> type_, chunks |-> l.out]))))

indefinite_bytestring(input) ==
    indefinite_string("IndefiniteByteString", concatenated_definite_bytestring, input)

\* map(f, DataItem::type_)
into_item(type_, r) ==
    IF r.ok THEN Ok(r.rest, [type |-> type_, data |-> r.out.data, bitwidth |-> r.out.bitwidth])
    ELSE r

bytestring(input) ==
    alt2(into_item("ByteString", concatenated_definite_bytestring(input)),
         indefinite_bytestring(input))

text_piece(input) == alt2(definite_bytestring(input), definite_textstring(input))

\* concatenated_definite_textstring without the UTF-8 check of the pieces
concatenated_unchecked(input) ==
    With(definite_textstring(input), LAMBDA first :
    IF ~first.ok THEN first ELSE
    With(many0(text_piece, first.rest, << >>), LAMBDA pieces :
    IF ~pieces.ok THEN pieces
    ELSE Ok(pieces.rest,
            [data |-> first.out \o Flatten(pieces.out), bitwidth |-> "Unknown"])))

concatenated_definite_textstring(input) ==
    With(definite_textstring(input), LAMBDA first :
    IF ~first.ok THEN first ELSE
    With(many0(text_piece, first.rest, << >>), LAMBDA pieces :
    IF ~pieces.ok THEN pieces ELSE
    With(from_utf8(Flatten(pieces.out)), LAMBDA rest :
    IF ~rest.some THEN Error
    ELSE Ok(pieces.rest, [data |-> first.out \o rest.v, bitwidth |-> "Unknown"]))))

indefinite_textstring(input) ==
    indefinite_string("IndefiniteTextString", concatenated_definite_textstring, input)

textstring(input) ==
    alt2(into_item("TextString", concatenated_definite_textstring(input)),
         indefinite_textstring(input))

(***************************************************************************)
(* Containers, tags and the dispatcher                                     *)
(***************************************************************************)
RECURSIVE data_item(_)

\* wrapws(tag(t))
wrapws_tag(t, input) ==
    With(tag(t, ws(input).rest), LAMBDA r :
    IF ~r.ok THEN Error ELSE Ok(ws(r.rest).rest, r.out))

\* delimited(wrapws(tag(open)), separated_list(tag(","), f), opt_comma_tag(close))
delimited_list(open, f(_), close, input) ==
    With(wrapws_tag(open, input), LAMBDA o :
    IF ~o.ok THEN Error ELSE
    With(separated_list(f, o.rest), LAMBDA l :
    IF ~l.ok THEN l ELSE
    With(opt_comma_tag(close, l.rest), LAMBDA c :
    IF ~c.ok THEN Error ELSE Ok(c.rest, l.out))))

\* map(.., |data| DataItem::Array { data, bitwidth })
array_of(bitwidth, r) ==
    IF r.ok THEN Ok(r.rest, [type |-> "Array", data |-> r.out, bitwidth |-> bitwidth])
    ELSE r

definite_array(input) ==
    array_of(Some("Unknown"), delimited_list(<< "[" >>, data_item, << "]" >>, input))

\* indefinite_array recording a width as a definite array does
indefinite_array_sized(input) ==
    array_of(Some("Unknown"), delimited_list(<< "[", "_" >>, data_item, << "]" >>, input))

indefinite_array(input) ==
    array_of(None, delimited_list(<< "[", "_" >>, data_item, << "]" >>, input))

array(input) == alt2(definite_array(input), indefinite_array(input))

\* separated_pair(data_item, tag(":"), data_item)
separated_pair(input) ==
    With(data_item(input), LAMBDA k :
    IF ~k.ok THEN k ELSE
    With(tag(<< ":" >>, k.rest), LAMBDA colon :
    IF ~colon.ok THEN Error ELSE
    With(data_item(colon.rest), LAMBDA v :
    IF ~v.ok THEN v ELSE Ok(v.rest, << k.out, v.out >>))))

\* map(.., |data| DataItem::Map { data, bitwidth })
map_of(bitwidth, r) ==
    IF r.ok THEN Ok(r.rest, [type |-> "Map", data |-> r.out, bitwidth |-> bitwidth])
    ELSE r

definite_map(input) ==
    map_of(Some("Unknown"), delimited_list(<< "{" >>, separated_pair, << "}" >>, input))

indefinite_map(input) ==
    map_of(None, delimited_list(<< "{", "_" >>, separated_pair, << "}" >>, input))

data_map(input) == alt2(definite_map(input), indefinite_map(input))

tagged(input) ==
    With(integer(input), LAMBDA i :
    IF ~i.ok THEN Error ELSE
    With(tag(<< "(" >>, i.rest), LAMBDA o :
    IF ~o.ok THEN Error ELSE
    With(data_item(o.rest), LAMBDA value :
    IF ~value.ok THEN value ELSE
    With(tag(<< ")" >>, value.rest), LAMBDA c :
    IF ~c.ok THEN Error
    ELSE Ok(c.rest,
            [type |-> "Tag",
             tag |-> i.out.value,
             bitwidth |-> IF i.out.bitwidth = "Unknown" /\ NatLeq(i.out.value, Dec(23))
                          THEN "Zero" ELSE i.out.bitwidth,
             value |-> value.out])))))

\* the alternatives with positive tried first
alternatives_positive_first(input) ==
    alt2(positive(input),
    alt2(float(input),
    alt2(tagged(input),
    alt2(negative(input),
    alt2(bytestring(input),
    alt2(textstring(input),
    alt2(array(input),
    alt2(data_map(input),
         simple(input)))))))))

\* the alternatives with textstring tried before bytestring
alternatives_text_first(input) ==
    alt2(float(input),
    alt2(tagged(input),
    alt2(positive(input),
    alt2(negative(input),
    alt2(textstring(input),
    alt2(bytestring(input),
    alt2(array(input),
    alt2(data_map(input),
         simple(input)))))))))

\* the nine alternatives, in the order alt tries them
alternatives(input) ==
    alt2(float(input),
    alt2(tagged(input),
    alt2(positive(input),
    alt2(negative(input),
    alt2(bytestring(input),
    alt2(textstring(input),
    alt2(array(input),
    alt2(data_map(input),
         simple(input)))))))))

data_item(input) ==
    With(alternatives(ws(input).rest), LAMBDA r :
    IF ~r.ok THEN r ELSE Ok(ws(r.rest).rest, r.out))

\* parse_diag returning the item whatever is left of the input
parse_diag_partial(input) ==
    With(data_item(input), LAMBDA r :
    IF ~r.ok
    THEN [ok |-> FALSE, error |-> "Parsing error", remaining |-> << >>]
    ELSE [ok |-> TRUE, item |-> r.out, remaining |-> r.rest])

\* parse_diag: the result and the local `remaining`
parse_diag(input) ==
    With(data_item(input), LAMBDA r :
    IF ~r.ok
    THEN [ok |-> FALSE, error |-> "Parsing error", remaining |-> << >>]
    ELSE IF r.rest # << >>
    THEN [ok |-> FALSE, error |-> "Remaining text", remaining |-> r.rest]
    ELSE [ok |-> TRUE, item |-> r.out, remaining |-> r.rest])

(***************************************************************************)
(* Inputs.  Every input is written from literals and layout, and `written` *)
(* keeps how.                                                              *)
(***************************************************************************)
MaxValue == 26
MaxSuffix == 5

DigitChars == << "0", "1", "2", "3", "4", "5", "6", "7", "8", "9" >>

\* the decimal spelling of n < 1000
Spell(n) == [i \in 1..Len(Dec(n)) |-> DigitChars[Dec(n)[i] + 1]]

U64MaxRun == [i \in 1..Len(U64_MAX) |-> DigitChars[U64_MAX[i] + 1]]
U64OverRun == [U64MaxRun EXCEPT ![Len(U64_MAX)] = "6"]

DigitRuns ==
    {Spell(n) : n \in 0..MaxValue}
        \cup {<< "0", "0" >>, << "0", "0", "7" >>, << "0", "2", "4" >>, Spell(255), Spell(256),
              U64MaxRun, U64OverRun}

Suffixes ==
    {<< >>, << "_" >>, << "_", "0", "3" >>, << "_", "1", "0" >>}
        \cup {<< "_", DigitChars[n + 1] >> : n \in 0..MaxSuffix}

Signs == {<< >>, << "-" >>}

\* where a numeric literal stands: what is written before and after it
NumberContexts ==
    { [name |-> "bare", before |-> << >>, after |-> << >>],
      [name |-> "spaced", before |-> << " ", "\t" >>, after |-> << "\r", "\n" >>],
      [name |-> "tag", before |-> << >>, after |-> << "(", "0", ")" >>],
      [name |-> "tag", before |-> << " " >>, after |-> << "(", " ", "[", "]", " ", ")", " " >>],
      [name |-> "unclosed", before |-> << >>, after |-> << "(", "0" >>],
      [name |-> "apart", before |-> << >>, after |-> << " ", "(", "0", ")" >>],
      [name |-> "trailing", before |-> << >>, after |-> << " ", "2" >>],
      [name |-> "fraction", before |-> << >>, after |-> << ".", "5" >>],
      [name |-> "element", before |-> << "[" >>, after |-> << "]" >>],
      [name |-> "tagged", before |-> << "1", "(" >>, after |-> << ")" >> ] }

InitNumber ==
    \E sign \in Signs, digits \in DigitRuns, suffix \in Suffixes, context \in NumberContexts :
        /\ written = [family |-> "number", sign |-> sign, digits |-> digits,
                      suffix |-> suffix, context |-> context]
        /\ text = context.before \o sign \o digits \o suffix \o context.after

FloatLiterals ==
    { << "0", ".", "0" >>, << "1", ".", "0" >>, << "0", ".", "5" >>,
      << "-", "0", ".", "5" >>, << "-", "0", ".", "0" >>, << "+", "1", ".", "5" >>,
      << "1", ".", "5", "e", "1" >>, << "1", "5", ".", "0" >>,
      << "1", ".", "5", "E", "-", "1" >>, << "0", ".", "1", "5" >>,
      << "1", "0", ".", "2", "5", "e", "+", "2" >>,
      T_Infinity, << "-" >> \o T_Infinity, T_NaN }

FloatSuffixes == {<< >>} \cup {<< "_", DigitChars[n + 1] >> : n \in 0..MaxSuffix}

\* the positions a data item can stand in
ItemContexts ==
    { [name |-> "bare", before |-> << >>, after |-> << >>],
      [name |-> "spaced", before |-> << " ", "\n" >>, after |-> << " " >>],
      [name |-> "element", before |-> << "[" >>, after |-> << "]" >>],
      [name |-> "second", before |-> << "[", "_", " ", "1", ",", " " >>, after |-> << ",", "]" >>],
      [name |-> "tagged", before |-> << "1", "(" >>, after |-> << ")" >>],
      [name |-> "key", before |-> << "{" >>, after |-> << ":", "1", "}" >>],
      [name |-> "value", before |-> << "{", "_", " ", "1", ":" >>, after |-> << "}" >>],
      [name |-> "called", before |-> << >>, after |-> << "(", "2", ")" >>] }

InitFloat ==
    \E literal \in FloatLiterals, suffix \in FloatSuffixes, context \in ItemContexts :
        /\ written = [family |-> "float", literal |-> literal, suffix |-> suffix,
                      context |-> context]
        /\ text = context.before \o literal \o suffix \o context.after

MaxElems == 3
MaxPairs == 2
MaxPieces == 3
MaxChunks == 2

\* the sequences over S of length at most n
SeqsUpTo(S, n) == UNION {[1..k -> S] : k \in 0..n}

\* a written data item of the list family: an unsigned literal or a container
IntShape(n) ==
    [kind |-> "int", n |-> n, indefinite |-> FALSE, elems |-> << >>, trail |-> "none"]
ArrayShape(indefinite, elems, trail) ==
    [kind |-> "array", n |-> 0, indefinite |-> indefinite, elems |-> elems, trail |-> trail]
\* the elems of a map are its keys and values in turn
MapShape(indefinite, elems, trail) ==
    [kind |-> "map", n |-> 0, indefinite |-> indefinite, elems |-> elems, trail |-> trail]

Elements ==
    { IntShape(1), IntShape(24),
      ArrayShape(TRUE, << IntShape(2) >>, "comma"),
      MapShape(TRUE, << IntShape(1), ArrayShape(FALSE, << >>, "none") >>, "none") }

Keys == { IntShape(1), ArrayShape(FALSE, << IntShape(2) >>, "none") }

Values == { IntShape(24), ArrayShape(TRUE, << >>, "none"), MapShape(FALSE, << >>, "none") }

Trails == {"none", "comma", "comma_space", "double"}

TrailText(trail) ==
    CASE trail = "none" -> << >>
      [] trail = "comma" -> << "," >>
      [] trail = "comma_space" -> << ",", " " >>
      [] trail = "double" -> << ",", "," >>

\* the texts joined by the separator
RECURSIVE Join(_, _)
Join(texts, sep) ==
    IF texts = << >> THEN << >>
    ELSE IF Len(texts) = 1 THEN texts[1]
    ELSE texts[1] \o sep \o Join(Tail(texts), sep)

RECURSIVE RenderShape(_, _)
RenderShape(shape, spaced) ==
    IF shape.kind = "int" THEN Spell(shape.n)
    ELSE LET open == IF shape.kind = "array" THEN << "[" >> ELSE << "{" >>
             close == IF shape.kind = "array" THEN << "]" >> ELSE << "}" >>
             mark == IF shape.indefinite THEN << "_" >> ELSE << >>
             gap == IF spaced THEN << " " >> ELSE << >>
             n == IF shape.kind = "array" THEN Len(shape.elems) ELSE Len(shape.elems) \div 2
             member(i) ==
                 IF shape.kind = "array" THEN RenderShape(shape.elems[i], spaced)
                 ELSE RenderShape(shape.elems[2 * i - 1], spaced) \o gap \o << ":" >> \o gap
                          \o RenderShape(shape.elems[2 * i], spaced)
         IN  open \o mark \o gap \o Join([i \in 1..n |-> member(i)], gap \o << "," >> \o gap)
                 \o TrailText(shape.trail) \o close

InitList ==
    \E indefinite \in BOOLEAN, trail \in Trails, spaced \in BOOLEAN :
        \/ \E elems \in SeqsUpTo(Elements, MaxElems) :
               /\ written = [family |-> "list", spaced |-> spaced,
                             shape |-> ArrayShape(indefinite, elems, trail)]
               /\ text = RenderShape(written.shape, spaced)
        \/ \E keys \in SeqsUpTo(Keys, MaxPairs), values \in SeqsUpTo(Values, MaxPairs) :
               /\ Len(keys) = Len(values)
               /\ written = [family |-> "list", spaced |-> spaced,
                             shape |-> MapShape(indefinite,
                                                [i \in 1..(2 * Len(keys)) |->
                                                    IF i % 2 = 1 THEN keys[(i + 1) \div 2]
                                                    ELSE values[i \div 2]],
                                                trail)]
               /\ text = RenderShape(written.shape, spaced)

\* a definite string literal as written, with the bytes it stands for
Piece(str, bytes, istext) == [text |-> str, bytes |-> bytes, istext |-> istext]

P_ab == Piece(<< "'", "a", "b", "'" >>, << 97, 98 >>, FALSE)
P_empty == Piece(<< "'", "'" >>, << >>, FALSE)
P_escaped == Piece(<< "'", "a", "\\", "'", "\\", "\\", "'" >>, << 97, 39, 92 >>, FALSE)
P_hC3 == Piece(<< "h", "'", "c", "3", "'" >>, << 195 >>, FALSE)
P_hA9 == Piece(<< "h", "'", "A", "9", "'" >>, << 169 >>, FALSE)
P_hex == Piece(<< "h", "'", "4", "8", " ", "6", "\n", "5", VT, "'" >>, << 72, 101 >>, FALSE)
P_b32 == Piece(<< "b", "3", "2", "'", "M", "F", "R", "A", "=", "=", "=", "=", "'" >>,
               << 97, 98 >>, FALSE)
P_h32 == Piece(<< "h", "3", "2", "'", "C", "4", "=", "=", "=", "=", "=", "=", "'" >>,
               << 97 >>, FALSE)
P_b64url == Piece(<< "b", "6", "4", "'", "_", "-", "8", "'" >>, << 255, 239 >>, FALSE)
P_b64 == Piece(<< "b", "6", "4", "'", "/", "+", "8", "=", "'" >>, << 255, 239 >>, FALSE)
P_b64pad == Piece(<< "b", "6", "4", "'", "Y", "Q", "=", "=", "'" >>, << 97 >>, FALSE)
T_a == Piece(<< "\"", "a", "\"" >>, << 97 >>, TRUE)
T_e == Piece(<< "\"", E_ACUTE, "\"" >>, << 195, 169 >>, TRUE)
T_escaped == Piece(<< "\"", "\\", "\"", "'", "\"" >>, << 34, 39 >>, TRUE)

CorePieces == { P_ab, P_empty, P_hC3, P_hA9, T_a, T_e }

AllPieces ==
    CorePieces \cup { P_escaped, P_hex, P_b32, P_h32, P_b64url, P_b64, P_b64pad, T_escaped }

\* the groups a chunk of an indefinite string is written as
Groups ==
    { << P_ab >>, << P_hC3, P_hA9 >>, << P_b64url, P_empty, P_hex >>,
      << T_a >>, << T_a, P_hC3, P_hA9 >>, << T_e, T_escaped >>, << T_a, P_hC3 >> }

RenderGroup(group, spaced) ==
    Join([i \in 1..Len(group) |-> group[i].text], IF spaced THEN << " " >> ELSE << >>)

InitString ==
    \E spaced \in BOOLEAN :
        \/ \E group \in SeqsUpTo(CorePieces, MaxPieces) \cup [1..2 -> AllPieces] :
               /\ group # << >>
               /\ written = [family |-> "string", indefinite |-> FALSE, spaced |-> spaced,
                             chunks |-> << group >>, trail |-> "none"]
               /\ text = RenderGroup(group, spaced)
        \/ \E chunks \in SeqsUpTo(Groups, MaxChunks), trail \in Trails :
               /\ written = [family |-> "string", indefinite |-> TRUE, spaced |-> spaced,
                             chunks |-> chunks, trail |-> trail]
               /\ text = << "(", "_" >> \o (IF spaced THEN << " " >> ELSE << >>)
                            \o Join([i \in 1..Len(chunks) |-> RenderGroup(chunks[i], spaced)],
                                    IF spaced THEN << ",", " " >> ELSE << "," >>)
                            \o TrailText(trail) \o << ")" >>

MaxLayout == 2

\* the items layout is written around
Tokens ==
    { << "1" >>, P_hex.text, T_a.text, << "[", "]" >>, << "(", "_", ")" >> }

LayoutContexts ==
    {c \in ItemContexts : c.name \in {"bare", "element", "tagged", "key", "value"}}

\* an item between two runs of the characters of WHITESPACE
InitLayout ==
    \E token \in Tokens, context \in LayoutContexts,
       before \in SeqsUpTo(WHITESPACE, MaxLayout), after \in SeqsUpTo(WHITESPACE, 1) :
        /\ written = [family |-> "layout", token |-> token, before |-> before,
                      after |-> after, context |-> context]
        /\ text = context.before \o before \o token \o after \o context.after

(***************************************************************************)
(* The program: one call of parse_diag on the text                         *)
(***************************************************************************)
Init ==
    /\ pc = "call"
    /\ result = [ok |-> FALSE, error |-> "", remaining |-> << >>]
    /\ \/ InitNumber
       \/ InitFloat
       \/ InitList
       \/ InitString
       \/ InitLayout

ParseDiag ==
    /\ pc = "call"
    /\ result' = parse_diag(text)
    /\ pc' = "done"
    /\ UNCHANGED << text, written >>

Next == ParseDiag

Spec == Init /\ [][Next]_vars

(***************************************************************************)
(* What the claims speak of                                                *)
(***************************************************************************)
Done == pc = "done"

NoItem == [type |-> "none"]

\* the item standing where the literal of a context was written
Slot(item, name) ==
    CASE name \in {"bare", "spaced"} -> item
      [] name = "element" ->
            IF item.type = "Array" /\ Len(item.data) >= 1 THEN item.data[1] ELSE NoItem
      [] name = "second" ->
            IF item.type = "Array" /\ Len(item.data) >= 2 THEN item.data[2] ELSE NoItem
      [] name = "tagged" -> IF item.type = "Tag" THEN item.value ELSE NoItem
      [] name = "key" ->
            IF item.type = "Map" /\ Len(item.data) >= 1 THEN item.data[1][1] ELSE NoItem
      [] name = "value" ->
            IF item.type = "Map" /\ Len(item.data) >= 1 THEN item.data[1][2] ELSE NoItem
      [] OTHER -> NoItem

\* the number a digit run of at most three digits spells
RunValue(run) == NatOf([i \in 1..Len(run) |-> DigitVal(run[i])])

RunIsShort(run) == Len(run) <= 3

RunAtMost(run, n) == RunIsShort(run) /\ RunValue(run) <= n

RunFits(run) == run # U64OverRun

\* the N of a written suffix _N
SuffixN(suffix) == RunValue(Tail(suffix))

WidthN(n) ==
    CASE n = 0 -> "Eight" [] n = 1 -> "Sixteen" [] n = 2 -> "ThirtyTwo" [] n = 3 -> "SixtyFour"

RECURSIVE ItemEq(_, _)
ItemEq(a, b) ==
    /\ a.type = b.type
    /\ CASE a.type = "Array" ->
                /\ a.bitwidth = b.bitwidth
                /\ Len(a.data) = Len(b.data)
                /\ \A i \in 1..Len(a.data) : ItemEq(a.data[i], b.data[i])
         [] a.type = "Map" ->
                /\ a.bitwidth = b.bitwidth
                /\ Len(a.data) = Len(b.data)
                /\ \A i \in 1..Len(a.data) :
                       ItemEq(a.data[i][1], b.data[i][1]) /\ ItemEq(a.data[i][2], b.data[i][2])
         [] a.type = "Tag" ->
                a.tag = b.tag /\ a.bitwidth = b.bitwidth /\ ItemEq(a.value, b.value)
         [] OTHER -> a = b

\* the tree a written shape of the list family denotes
RECURSIVE Denotes(_)
Denotes(shape) ==
    CASE shape.kind = "int" ->
            [type |-> "Integer", value |-> Dec(shape.n),
             bitwidth |-> IF shape.n <= 23 THEN "Zero" ELSE "Unknown"]
      [] shape.kind = "array" ->
            [type |-> "Array",
             data |-> [i \in 1..Len(shape.elems) |-> Denotes(shape.elems[i])],
             bitwidth |-> IF shape.indefinite THEN None ELSE Some("Unknown")]
      [] shape.kind = "map" ->
            [type |-> "Map",
             data |-> [i \in 1..(Len(shape.elems) \div 2) |->
                          << Denotes(shape.elems[2 * i - 1]), Denotes(shape.elems[2 * i]) >>],
             bitwidth |-> IF shape.indefinite THEN None ELSE Some("Unknown")]

\* a list as the grammar writes it: at most one trailing comma, after an element
RECURSIVE WellFormed(_)
WellFormed(shape) ==
    /\ shape.trail \in {"none", "comma", "comma_space"}
    /\ shape.elems = << >> => shape.trail = "none"
    /\ \A i \in 1..Len(shape.elems) : WellFormed(shape.elems[i])

GroupBytes(group) == Flatten([i \in 1..Len(group) |-> group[i].bytes])

AllBytePieces(group) == \A i \in 1..Len(group) : ~group[i].istext

\* over bytes below 128, C3 and A9: C3 and A9 occur only as the pair C3 A9
RECURSIVE Paired(_)
Paired(b) ==
    IF b = << >> THEN TRUE
    ELSE IF b[1] < 128 THEN Paired(Tail(b))
    ELSE b[1] = 195 /\ Len(b) >= 2 /\ b[2] = 169 /\ Paired(Drop(b, 2))

(***************************************************************************)
(* C1: parse_diag returns an item only when data_item succeeded and left   *)
(* nothing of the input; a remainder is an error that names it and returns *)
(* no item ("1 2" is rejected though "1" is accepted), and so is a failure *)
(* of data_item.                                                           *)
(***************************************************************************)
C1_WholeInputOrError ==
    Done =>
        LET d == data_item(text)
        IN  /\ result.ok <=> (d.ok /\ d.rest = << >>)
            /\ result.ok => ItemEq(result.item, d.out)
            /\ ~result.ok => "item" \notin DOMAIN result
            /\ (d.ok /\ d.rest # << >>) =>
                   /\ result.error = "Remaining text"
                   /\ result.remaining = d.rest
                   /\ Len(d.rest) <= Len(text)
                   /\ d.rest = Drop(text, Len(text) - Len(d.rest))
            /\ ~d.ok => result.error = "Parsing error"
            /\ ( /\ written.family = "number"
                 /\ written.context.name = "trailing"
                 /\ written.sign = << >>
                 /\ RunFits(written.digits)
                 /\ written.suffix = << >> ) =>
                   /\ ~result.ok
                   /\ result.remaining = << "2" >>
                   /\ parse_diag(written.digits).ok

C1_Witness ==
    /\ Done
    /\ text = << "1", " ", "2" >>
    /\ ~result.ok
    /\ result.error = "Remaining text"
    /\ result.remaining = << "2" >>

(***************************************************************************)
(* C2: an unsigned literal without a width suffix, as an integer and as a  *)
(* tag number, gets bitwidth Zero when its value is at most 23 and Unknown *)
(* when it is 24 or more.                                                  *)
(***************************************************************************)
ShortestWidth(run) == IF RunAtMost(run, 23) THEN "Zero" ELSE "Unknown"

C2_ShortestFormUnsigned ==
    ( /\ Done
      /\ written.family = "number"
      /\ written.sign = << >>
      /\ written.suffix = << >>
      /\ RunFits(written.digits) ) =>
        /\ written.context.name \in {"bare", "spaced", "element", "tagged"} =>
               /\ result.ok
               /\ Slot(result.item, written.context.name).type = "Integer"
               /\ Slot(result.item, written.context.name).bitwidth
                      = ShortestWidth(written.digits)
        /\ written.context.name = "tag" =>
               /\ result.ok
               /\ result.item.type = "Tag"
               /\ result.item.bitwidth = ShortestWidth(written.digits)

C2_Witness ==
    /\ Done
    /\ written.family = "number"
    /\ written.sign = << >>
    /\ written.suffix = << >>
    /\ written.digits = << "2", "4" >>
    /\ written.context.name = "tag"
    /\ result.ok
    /\ result.item.type = "Tag"
    /\ result.item.bitwidth = "Unknown"

(***************************************************************************)
(* C3: a negative literal -m with m = 0 is rejected, with or without a     *)
(* suffix; with m >= 1 the result is Negative with value m - 1, and        *)
(* without a suffix its bitwidth is Zero when m <= 24 and Unknown when     *)
(* m >= 25.                                                                *)
(***************************************************************************)
C3_NegativeOffset ==
    ( /\ Done
      /\ written.family = "number"
      /\ written.sign = << "-" >>
      /\ written.context.name \in {"bare", "spaced"}
      /\ RunFits(written.digits) ) =>
        IF RunAtMost(written.digits, 0)
        THEN ~result.ok
        ELSE (written.suffix = << >> \/ (Len(written.suffix) >= 2 /\ SuffixN(written.suffix) <= 3)) =>
                 /\ result.ok
                 /\ result.item.type = "Negative"
                 /\ IF RunIsShort(written.digits)
                    THEN NatOf(result.item.value) + 1 = RunValue(written.digits)
                    ELSE result.item.value = [U64_MAX EXCEPT ![Len(U64_MAX)] = 4]
                 /\ written.suffix = << >> =>
                        result.item.bitwidth
                            = (IF RunAtMost(written.digits, 24) THEN "Zero" ELSE "Unknown")

C3_Witness ==
    /\ Done
    /\ written.family = "number"
    /\ text = << "-", "2", "5" >>
    /\ result.ok
    /\ result.item.type = "Negative"
    /\ result.item.value = << 2, 4 >>
    /\ result.item.bitwidth = "Unknown"

(***************************************************************************)
(* C4: a width suffix _N on an Integer, Negative or Tag literal forces     *)
(* Eight, Sixteen, ThirtyTwo, SixtyFour for N = 0, 1, 2, 3 whatever the    *)
(* value; with N >= 4 parse_diag returns an error.                         *)
(***************************************************************************)
C4_ExplicitWidth ==
    ( /\ Done
      /\ written.family = "number"
      /\ Len(written.suffix) >= 2
      /\ RunFits(written.digits)
      /\ written.sign = << "-" >> => ~RunAtMost(written.digits, 0) ) =>
        IF SuffixN(written.suffix) >= 4
        THEN ~result.ok
        ELSE /\ written.context.name \in {"bare", "spaced"} =>
                    /\ result.ok
                    /\ result.item.type
                           = (IF written.sign = << >> THEN "Integer" ELSE "Negative")
                    /\ result.item.bitwidth = WidthN(SuffixN(written.suffix))
             /\ (written.context.name = "tag" /\ written.sign = << >>) =>
                    /\ result.ok
                    /\ result.item.type = "Tag"
                    /\ result.item.bitwidth = WidthN(SuffixN(written.suffix))

C4_Witness ==
    /\ Done
    /\ written.family = "number"
    /\ text = << "1", "_", "3" >>
    /\ result.ok
    /\ result.item.type = "Integer"
    /\ result.item.bitwidth = "SixtyFour"

(***************************************************************************)
(* C5: a float literal X without a suffix is a Float of width Unknown;     *)
(* X_1, X_2, X_3 are Floats of width Sixteen, ThirtyTwo, SixtyFour with    *)
(* the value of X; X_0 is rejected wherever a data item can stand.         *)
(***************************************************************************)
FloatWidthN(n) == CASE n = 1 -> "Sixteen" [] n = 2 -> "ThirtyTwo" [] n = 3 -> "SixtyFour"

C5_FloatWidth ==
    ( /\ Done
      /\ written.family = "float"
      /\ written.context.name # "called" ) =>
        /\ (written.suffix = << >> \/ SuffixN(written.suffix) \in 1..3) =>
               /\ result.ok
               /\ Slot(result.item, written.context.name).type = "Float"
               /\ Slot(result.item, written.context.name).bitwidth
                      = (IF written.suffix = << >> THEN "Unknown"
                         ELSE FloatWidthN(SuffixN(written.suffix)))
               /\ parse_diag(written.literal).ok
               /\ Slot(result.item, written.context.name).value
                      = parse_diag(written.literal).item.value
               /\ written.literal \in {<< "1", ".", "5", "e", "1" >>, << "1", "5", ".", "0" >>} =>
                      Slot(result.item, written.context.name).value
                          = [class |-> "finite", negative |-> FALSE,
                             mant |-> << 1, 5 >>, exp |-> 0]
               /\ written.literal = T_NaN =>
                      Slot(result.item, written.context.name).value.class = "nan"
        /\ (written.suffix # << >> /\ SuffixN(written.suffix) = 0) => ~result.ok

C5_Witness ==
    /\ Done
    /\ written.family = "float"
    /\ written.literal = << "-" >> \o T_Infinity
    /\ written.suffix = << "_", "1" >>
    /\ written.context.name = "key"
    /\ result.ok
    /\ result.item.data[1][1].bitwidth = "Sixteen"
    /\ result.item.data[1][1].value.class = "infinite"
    /\ result.item.data[1][1].value.negative

(***************************************************************************)
(* C6: data_item returns the first of float, tagged, positive, ... that    *)
(* succeeds: digits "." digits is a Float, never an Integer or the number  *)
(* of a Tag; an unsigned literal directly followed by "(" item ")" is a    *)
(* Tag; an unsigned literal followed by no "(" is an Integer.              *)
(***************************************************************************)
C6_DispatchOrder ==
    /\ ( /\ Done
         /\ written.family = "number"
         /\ written.suffix = << >>
         /\ written.context.name = "fraction" ) =>
           /\ result.ok
           /\ result.item.type = "Float"
    /\ ( /\ Done
         /\ written.family = "float"
         /\ written.context.name = "called" ) =>
           ~(result.ok /\ result.item.type \in {"Integer", "Tag"})
    /\ ( /\ Done
         /\ written.family = "number"
         /\ written.sign = << >>
         /\ RunFits(written.digits)
         /\ (written.suffix = << >>
                \/ (Len(written.suffix) >= 2 /\ SuffixN(written.suffix) <= 3)) ) =>
           /\ written.context.name = "tag" =>
                  /\ result.ok
                  /\ result.item.type = "Tag"
                  /\ result.item.tag = StripZeros([i \in 1..Len(written.digits) |->
                                                      DigitVal(written.digits[i])])
           /\ written.context.name \in {"bare", "spaced"} =>
                  /\ result.ok
                  /\ result.item.type = "Integer"
           /\ written.context.name \in {"apart", "unclosed"} =>
                  ~(result.ok /\ result.item.type = "Tag")

C6_Witness ==
    /\ Done
    /\ written.family = "number"
    /\ text = << "1", ".", "5" >>
    /\ result.ok
    /\ result.item.type = "Float"
    /\ result.item.value.mant = << 1, 5 >>
    /\ result.item.value.exp = 0 - 1

(***************************************************************************)
(* C7: at every depth of a returned tree an Array or Map has bitwidth None *)
(* exactly when it was written [_ ...] or {_ ...} and Some(Unknown) when   *)
(* written [...] or {...}; its members are the written items in order, and *)
(* one trailing comma before the closing bracket adds no member.           *)
(***************************************************************************)
C7_ContainerWidthAndMembers ==
    ( /\ Done
      /\ written.family = "list"
      /\ WellFormed(written.shape) ) =>
        /\ result.ok
        /\ ItemEq(result.item, Denotes(written.shape))

C7_Witness ==
    /\ Done
    /\ written.family = "list"
    /\ written.shape.kind = "array"
    /\ ~written.shape.indefinite
    /\ written.shape.trail = "comma"
    /\ written.shape.elems
           = << IntShape(1), IntShape(24), ArrayShape(TRUE, << IntShape(2) >>, "comma") >>
    /\ result.ok
    /\ result.item.bitwidth = Some("Unknown")
    /\ Len(result.item.data) = 3
    /\ result.item.data[3].type = "Array"
    /\ result.item.data[3].bitwidth = None

(***************************************************************************)
(* C8: adjacent definite byte-string literals, in any surface form and     *)
(* with at most whitespace between them, are one ByteString holding their  *)
(* bytes in order, with bitwidth Unknown; inside (_ ...) every             *)
(* comma-separated group is one chunk, in order, and a trailing comma adds *)
(* no chunk.                                                               *)
(***************************************************************************)
C8_ByteStringGrouping ==
    ( /\ Done
      /\ written.family = "string"
      /\ written.chunks # << >>
      /\ \A i \in 1..Len(written.chunks) : AllBytePieces(written.chunks[i])
      /\ written.trail \in {"none", "comma", "comma_space"} ) =>
        /\ result.ok
        /\ IF written.indefinite
           THEN /\ result.item.type = "IndefiniteByteString"
                /\ Len(result.item.chunks) = Len(written.chunks)
                /\ \A i \in 1..Len(written.chunks) :
                       /\ result.item.chunks[i].data = GroupBytes(written.chunks[i])
                       /\ result.item.chunks[i].bitwidth = "Unknown"
           ELSE /\ result.item.type = "ByteString"
                /\ result.item.data = GroupBytes(written.chunks[1])
                /\ result.item.bitwidth = "Unknown"

C8_Witness ==
    /\ Done
    /\ written.family = "string"
    /\ written.indefinite
    /\ written.chunks = << << P_ab >>, << P_hC3, P_hA9 >> >>
    /\ written.trail = "comma_space"
    /\ result.ok
    /\ result.item.type = "IndefiniteByteString"
    /\ Len(result.item.chunks) = 2
    /\ result.item.chunks[2].data = << 195, 169 >>

(***************************************************************************)
(* C9: a text-string literal followed by further text-string or            *)
(* byte-string literals is one TextString holding the first literal and    *)
(* then the bytes of the others in order, with bitwidth Unknown; when      *)
(* those bytes are not UTF-8 the whole parse is an error, never a          *)
(* TextString of a valid prefix.                                           *)
(***************************************************************************)
C9_TextStringConcatenation ==
    ( /\ Done
      /\ written.family = "string"
      /\ written.chunks # << >>
      /\ written.trail \in {"none", "comma", "comma_space"}
      /\ \A i \in 1..Len(written.chunks) : written.chunks[i][1].istext ) =>
        IF \A i \in 1..Len(written.chunks) : Paired(GroupBytes(written.chunks[i]))
        THEN /\ result.ok
             /\ IF written.indefinite
                THEN /\ result.item.type = "IndefiniteTextString"
                     /\ Len(result.item.chunks) = Len(written.chunks)
                     /\ \A i \in 1..Len(written.chunks) :
                            /\ result.item.chunks[i].data = GroupBytes(written.chunks[i])
                            /\ result.item.chunks[i].bitwidth = "Unknown"
                ELSE /\ result.item.type = "TextString"
                     /\ result.item.data = GroupBytes(written.chunks[1])
                     /\ result.item.bitwidth = "Unknown"
        ELSE ~result.ok

C9_Witness ==
    /\ Done
    /\ written.family = "string"
    /\ ~written.indefinite
    /\ written.chunks = << << T_a, P_hC3, T_a >> >>
    /\ ~result.ok

(***************************************************************************)
(* C10: between the delimiters of an array, map or indefinite string a     *)
(* comma is accepted only after an element: a list that is a comma alone,  *)
(* as in [,] [_,] {,} (_,), is rejected by parse_diag.                     *)
(***************************************************************************)
C10_CommaAloneRejected ==
    ( /\ Done
      /\ \/ /\ written.family = "list"
            /\ written.shape.elems = << >>
         \/ /\ written.family = "string"
            /\ written.indefinite
            /\ written.chunks = << >>
      /\ text \in { << "[", ",", "]" >>, << "[", "_", ",", "]" >>, << "{", ",", "}" >>,
                    << "{", "_", ",", "}" >>, << "(", "_", ",", ")" >> } ) =>
        ~result.ok

(***************************************************************************)
(* C11: the layout skipper takes any run of tab, LF, vertical tab, CR and   *)
(* space around a token and never fails, the characters the codecs ignore  *)
(* inside an encoded literal: an item written with such runs before and    *)
(* after it parses as the item written without them.                       *)
(***************************************************************************)
C11_LayoutSkipped ==
    (Done /\ written.family = "layout") =>
        result = parse_diag(written.context.before \o written.token \o written.context.after)

(***************************************************************************)
(* C12: (_) parses to IndefiniteByteString with zero chunks wherever an    *)
(* item can stand, and no tree parse_diag returns holds an                  *)
(* IndefiniteTextString with zero chunks.                                  *)
(***************************************************************************)
RECURSIVE HasEmptyTextString(_)
HasEmptyTextString(item) ==
    CASE item.type = "IndefiniteTextString" -> item.chunks = << >>
      [] item.type = "Array" -> \E i \in 1..Len(item.data) : HasEmptyTextString(item.data[i])
      [] item.type = "Map" ->
            \E i \in 1..Len(item.data) :
                HasEmptyTextString(item.data[i][1]) \/ HasEmptyTextString(item.data[i][2])
      [] item.type = "Tag" -> HasEmptyTextString(item.value)
      [] OTHER -> FALSE

EmptyByteString == [type |-> "IndefiniteByteString", chunks |-> << >>]

\* the empty indefinite string written with layout that ws skips
EmptyWritten ==
    /\ written.family = "layout"
    /\ written.token = << "(", "_", ")" >>
    /\ \A i \in 1..Len(written.before) : written.before[i] \in Multispace
    /\ \A i \in 1..Len(written.after) : written.after[i] \in Multispace

C12_EmptyIndefiniteIsBytes ==
    Done =>
        /\ result.ok => ~HasEmptyTextString(result.item)
        /\ EmptyWritten =>
               /\ result.ok
               /\ Slot(result.item, written.context.name) = EmptyByteString

C12_Witness ==
    /\ Done
    /\ EmptyWritten
    /\ written.context.name = "element"
    /\ written.before # << >>
    /\ result.ok
    /\ result.item.type = "Array"
    /\ result.item.data = << EmptyByteString >>

=============================================================================
